---- MODULE Spec2Model ----
(***************************************************************************)
(* Model of snailviewer's liveness pointers (lifeline, living_ptr,         *)
(* liveness_ptr, holder_ptr) over a POSIX read-write lock.                 *)
(*                                                                         *)
(* Every handle is driven by its own thread.  A lifeline is a heap cell    *)
(* with a raw pointer `object` and a pthread_rwlock_t, modelled by the     *)
(* number of read locks held, the write-lock flag, and the set of threads  *)
(* blocked in pthread_rwlock_wrlock (the owners whose pc is "wrlock").     *)
(***************************************************************************)
EXTENDS Naturals, FiniteSets, Sequences, Bags, TLC

\* ---------------------------------------------------------------- bounds
NLife == 1          \* lifelines that can be allocated
NOwner == 2         \* living_ptr handles alive at a time
NObs == 2           \* liveness_ptr handles alive at a time
NGuard == 2         \* holder_ptr handles alive at a time
MaxReaders == 2     \* read locks a rwlock admits before tryrdlock gives EAGAIN

Lifelines == 1..NLife

\* An empty std::shared_ptr<lifeline>, and the null raw pointer.
NoLife == 0
NULL == 0

\* The address of the object that owns lifeline l (the `thiz` argument).
ObjectOf(l) == l

VARIABLES
    heap,      \* heap[l]: "unallocated", "allocated" or "freed"
    object,    \* lifeline::object
    readers,   \* read locks held on the lifeline's rwlock
    writer,    \* TRUE while the write lock of the lifeline's rwlock is held
    owners,    \* the living_ptr handles: a bag of [pc, life, tmp]
    observers, \* the liveness_ptr handles: a bag of [life]
    guards,    \* the holder_ptr handles: a bag of [pc, life, ptr]
    deaths,    \* number of calls of lifeline::waitForDeath, per lifeline
    hs,        \* the eventHandler objects: state, event kind and bus of each
    order,     \* the handlers in the order of their subscribe calls
    calls,     \* the subscribe and unsubscribe calls each handler has made
    registry,  \* per bus and event id, the subscribed handlers
    bc,        \* per bus, the broadcast call in progress
    ua, ub,    \* two uid values
    result     \* what the uid operators gave for ua and ub

lifeVars == <<heap, object, readers, writer, owners, observers, guards, deaths>>
eventVars == <<hs, order, calls, registry, bc>>
uidVars == <<ua, ub, result>>
vars == <<lifeVars, eventVars, uidVars>>

lockVars == <<readers, writer>>

\* ------------------------------------------------------------- handles
\* Handles of one class are anonymous, so each class is kept as a bag of the
\* handles' fields together with the position of the thread that drives them.
\*   living_ptr:   pc "live", or inside waitForDeath: "wrlock" (blocked in
\*                 pthread_rwlock_wrlock), "locked", "nulled"; `tmp` is the life
\*                 of the by-value parameter b while operator= is running.
\*   holder_ptr:   pc "reading" (tryrdlock returned 0, object not yet read),
\*                 or "held" (constructed).
OwnerRec(pc, life, tmp) == [pc |-> pc, life |-> life, tmp |-> tmp]
ObsRec(life) == [life |-> life]
GuardRec(pc, life, ptr) == [pc |-> pc, life |-> life, ptr |-> ptr]

LifeRefs == Lifelines \cup {NoLife}
Pointers == {ObjectOf(l) : l \in Lifelines} \cup {NULL}

\* A pointer value that is the address of no object, and the values that a
\* read of an uninitialized `ptr` member can give.
Wild == NLife + 1
Uninitialized == Pointers \cup {Wild}
OwnerRecs == [pc : {"live", "wrlock", "locked", "nulled"}, life : LifeRefs, tmp : LifeRefs]
ObsRecs == [life : LifeRefs]
GuardRecs == [pc : {"reading", "held"}, life : LifeRefs, ptr : Uninitialized]

Put(B, r) == B (+) SetToBag({r})
Take(B, r) == B (-) SetToBag({r})
Handles(B) == BagToSet(B)

\* The number of handles of bag B that lie in the set S.
CountIn(B, S) ==
    LET D == BagToSet(B) \cap S
    IN  BagCardinality([r \in D |-> B[r]])

\* ------------------------------------------------------ shared_ptr count
\* std::shared_ptr<lifeline>::use_count(): the handles whose `life` is l.
UseCount(l) ==
      CountIn(owners, {o \in OwnerRecs : o.life = l})
    + CountIn(owners, {o \in OwnerRecs : o.tmp = l})
    + CountIn(observers, {b \in ObsRecs : b.life = l})
    + CountIn(guards, {g \in GuardRecs : g.life = l})

\* Faulty variant: a handle that deletes the lifeline it refers to, shared or not.
DropRef_deletes(l) ==
    IF l # NoLife THEN [heap EXCEPT ![l] = "freed"] ELSE heap

\* The heap after one handle drops its reference to l: the last one frees it.
DropRef(l) ==
    IF l # NoLife /\ UseCount(l) = 1
    THEN [heap EXCEPT ![l] = "freed"]
    ELSE heap

\* ----------------------------------------------------------- the rwlock
\* The lifeline whose waitForDeath the thread of owner o is running: the one of
\* the parameter b inside operator=, the handle's own inside ~living_ptr.
Dying(o) == IF o.tmp # NoLife THEN o.tmp ELSE o.life

\* A thread is blocked in pthread_rwlock_wrlock on lifeline l.
WriterPending(l) == \E o \in Handles(owners) : o.pc = "wrlock" /\ Dying(o) = l

\* Faulty variant: a write lock that does not wait for the readers to leave.
CanWrLock_ignoresReaders(l) == ~writer[l]

\* pthread_rwlock_wrlock returns: no reader and no writer holds the lock.
CanWrLock(l) == readers[l] = 0 /\ ~writer[l]

\* Faulty variant: a try-read-lock that is granted while the write lock is held.
TryRdLockResults_ignoresWriter(l) ==
    IF readers[l] >= MaxReaders THEN {FALSE} ELSE {TRUE}

\* The possible outcomes of pthread_rwlock_tryrdlock (TRUE: returned 0).
\* EBUSY when a writer holds the lock, EAGAIN when the read-lock count is
\* exhausted.  With a writer blocked on the lock POSIX leaves the outcome to
\* the implementation (reader or writer preference): either can happen.
TryRdLockResults(l) ==
    IF writer[l] \/ readers[l] >= MaxReaders THEN {FALSE}
    ELSE IF WriterPending(l) THEN {TRUE, FALSE}
    ELSE {TRUE}

\* ------------------------------------------------------------------ Init
LifeInit ==
    /\ heap = [l \in Lifelines |-> "unallocated"]
    /\ object = [l \in Lifelines |-> NULL]
    /\ readers = [l \in Lifelines |-> 0]
    /\ writer = [l \in Lifelines |-> FALSE]
    /\ owners = EmptyBag
    /\ observers = EmptyBag
    /\ guards = EmptyBag
    /\ deaths = [l \in Lifelines |-> 0]

\* ------------------------------------------------------------ living_ptr
\* living_ptr(objectType* thiz): life(new lifeline(thiz)).
OwnerCreate(l) ==
    /\ BagCardinality(owners) < NOwner
    /\ heap[l] = "unallocated"
    /\ \A k \in Lifelines : k < l => heap[k] # "unallocated"
    /\ heap' = [heap EXCEPT ![l] = "allocated"]
    /\ object' = [object EXCEPT ![l] = ObjectOf(l)]
    /\ owners' = Put(owners, OwnerRec("live", l, NoLife))
    /\ UNCHANGED <<lockVars, observers, guards, deaths, eventVars, uidVars>>

\* living_ptr(): life().
OwnerCreateEmpty ==
    /\ BagCardinality(owners) < NOwner
    /\ owners' = Put(owners, OwnerRec("live", NoLife, NoLife))
    /\ UNCHANGED <<heap, object, lockVars, observers, guards, deaths, eventVars, uidVars>>

\* Faulty variant: a move that copies `life` and leaves the source holding it.
SwapLife_keepsSource(mine, theirs) == <<theirs, theirs>>

\* swap(life, b.life) on the pair <<life, b.life>>.
SwapLife(mine, theirs) == <<theirs, mine>>

\* living_ptr(living_ptr&& b): life() { swap(life, b.life); }
OwnerMove(src) ==
    /\ BagIn(src, owners)
    /\ BagCardinality(owners) < NOwner
    /\ src.pc = "live"
    /\ LET sw == SwapLife(NoLife, src.life)
       IN  owners' = Put(Put(Take(owners, src),
                             OwnerRec("live", sw[2], NoLife)),
                         OwnerRec("live", sw[1], NoLife))
    /\ UNCHANGED <<heap, object, lockVars, observers, guards, deaths, eventVars, uidVars>>

\* ~living_ptr(): if(life) life->waitForDeath(), up to the call of
\* pthread_rwlock_wrlock.  An empty pointer is destroyed at once.
OwnerDestroy(o) ==
    /\ BagIn(o, owners)
    /\ o.pc = "live"
    /\ IF o.life = NoLife
       THEN /\ owners' = Take(owners, o)
            /\ UNCHANGED deaths
       ELSE /\ owners' = Put(Take(owners, o), OwnerRec("wrlock", o.life, NoLife))
            /\ deaths' = [deaths EXCEPT ![o.life] = @ + 1]
    /\ UNCHANGED <<heap, object, lockVars, observers, guards, eventVars, uidVars>>

\* The handle dst once operator= has swapped and b is about to be destroyed:
\* the thread enters waitForDeath when b took a lifeline from dst.
Assigned(life, tmp) == OwnerRec(IF tmp = NoLife THEN "live" ELSE "wrlock", life, tmp)

\* dst = std::move(src), run by the thread of dst: the parameter b is
\* move-constructed from src, swap(life, b.life), and b is destroyed on return.
OwnerAssign(dst, src) ==
    /\ BagIn(dst, owners)
    /\ BagIn(src, owners)
    /\ dst.pc = "live"
    /\ src.pc = "live"
    /\ dst # src \/ CopiesIn(dst, owners) >= 2
    /\ LET mv == SwapLife(NoLife, src.life)
           sw == SwapLife(dst.life, mv[1])
       IN  /\ owners' = Put(Put(Take(Take(owners, dst), src),
                                OwnerRec("live", mv[2], NoLife)),
                            Assigned(sw[1], sw[2]))
           /\ deaths' = IF sw[2] = NoLife THEN deaths
                        ELSE [deaths EXCEPT ![sw[2]] = @ + 1]
    /\ UNCHANGED <<heap, object, lockVars, observers, guards, eventVars, uidVars>>

\* o = std::move(o): b takes o's life, o is left empty, and the swap gives
\* it back; b is destroyed empty.
OwnerAssignSelf(o) ==
    /\ BagIn(o, owners)
    /\ o.pc = "live"
    /\ LET mv == SwapLife(NoLife, o.life)
           sw == SwapLife(mv[2], mv[1])
       IN  /\ owners' = Put(Take(owners, o), Assigned(sw[1], sw[2]))
           /\ deaths' = IF sw[2] = NoLife THEN deaths
                        ELSE [deaths EXCEPT ![sw[2]] = @ + 1]
    /\ UNCHANGED <<heap, object, lockVars, observers, guards, eventVars, uidVars>>

\* waitForDeath: pthread_rwlock_wrlock returns.
OwnerLock(o) ==
    /\ BagIn(o, owners)
    /\ o.pc = "wrlock"
    /\ CanWrLock(Dying(o))
    /\ writer' = [writer EXCEPT ![Dying(o)] = TRUE]
    /\ owners' = Put(Take(owners, o), OwnerRec("locked", o.life, o.tmp))
    /\ UNCHANGED <<heap, object, readers, observers, guards, deaths, eventVars, uidVars>>

\* Faulty variant: waitForDeath that releases the lock without clearing `object`.
OwnerNull_keepsObject(o) ==
    /\ BagIn(o, owners)
    /\ o.pc = "locked"
    /\ owners' = Put(Take(owners, o), OwnerRec("nulled", o.life, o.tmp))
    /\ UNCHANGED <<heap, object, lockVars, observers, guards, deaths, eventVars, uidVars>>

\* waitForDeath: object = nullptr.
OwnerNull(o) ==
    /\ BagIn(o, owners)
    /\ o.pc = "locked"
    /\ object' = [object EXCEPT ![Dying(o)] = NULL]
    /\ owners' = Put(Take(owners, o), OwnerRec("nulled", o.life, o.tmp))
    /\ UNCHANGED <<heap, lockVars, observers, guards, deaths, eventVars, uidVars>>

\* waitForDeath: pthread_rwlock_unlock; then the dying handle's member `life`
\* is destroyed: operator= returns to a live dst, ~living_ptr ends the handle.
OwnerUnlock(o) ==
    /\ BagIn(o, owners)
    /\ o.pc = "nulled"
    /\ writer' = [writer EXCEPT ![Dying(o)] = FALSE]
    /\ heap' = DropRef(Dying(o))
    /\ owners' = IF o.tmp # NoLife
                 THEN Put(Take(owners, o), OwnerRec("live", o.life, NoLife))
                 ELSE Take(owners, o)
    /\ UNCHANGED <<object, readers, observers, guards, deaths, eventVars, uidVars>>

\* ---------------------------------------------------------- liveness_ptr
\* liveness_ptr(const living_ptr& l): life(l.life).
ObsFromOwner(o) ==
    /\ BagIn(o, owners)
    /\ BagCardinality(observers) < NObs
    /\ o.pc = "live"
    /\ observers' = Put(observers, ObsRec(o.life))
    /\ UNCHANGED <<heap, object, lockVars, owners, guards, deaths, eventVars, uidVars>>

\* Faulty variant: a copy that also retains the lifeline, as a holder would.
ObsCopy_retains(src) ==
    /\ BagIn(src, observers)
    /\ BagCardinality(observers) < NObs
    /\ observers' = Put(observers, ObsRec(src.life))
    /\ readers' = IF src.life # NoLife /\ TRUE \in TryRdLockResults(src.life)
                  THEN [readers EXCEPT ![src.life] = @ + 1]
                  ELSE readers
    /\ UNCHANGED <<heap, object, writer, owners, guards, deaths, eventVars, uidVars>>

\* liveness_ptr(const liveness_ptr& lp): life(lp.life).
ObsCopy(src) ==
    /\ BagIn(src, observers)
    /\ BagCardinality(observers) < NObs
    /\ observers' = Put(observers, ObsRec(src.life))
    /\ UNCHANGED <<heap, object, lockVars, owners, guards, deaths, eventVars, uidVars>>

\* ~liveness_ptr().
ObsDestroy(b) ==
    /\ BagIn(b, observers)
    /\ heap' = DropRef(b.life)
    /\ observers' = Take(observers, b)
    /\ UNCHANGED <<object, lockVars, owners, guards, deaths, eventVars, uidVars>>

\* ------------------------------------------------------------ holder_ptr
\* Faulty variant: a constructor without the initializer ptr(nullptr), so that
\* a holder made from an empty liveness_ptr keeps an uninitialized ptr.
GuardConstruct_uninitPtr(b) ==
    /\ BagIn(b, observers)
    /\ BagCardinality(guards) < NGuard
    /\ IF b.life = NoLife
       THEN /\ \E x \in Uninitialized : guards' = Put(guards, GuardRec("held", NoLife, x))
            /\ UNCHANGED readers
       ELSE \E ok \in TryRdLockResults(b.life) :
            IF ok
            THEN /\ readers' = [readers EXCEPT ![b.life] = @ + 1]
                 /\ guards' = Put(guards, GuardRec("reading", b.life, NULL))
            ELSE /\ guards' = Put(guards, GuardRec("held", b.life, NULL))
                 /\ UNCHANGED readers
    /\ UNCHANGED <<heap, object, writer, owners, observers, deaths, eventVars, uidVars>>

\* holder_ptr(const liveness_ptr& lp): life(lp.life), ptr(nullptr), and the
\* pthread_rwlock_tryrdlock of retain() when life is not empty.
GuardConstruct(b) ==
    /\ BagIn(b, observers)
    /\ BagCardinality(guards) < NGuard
    /\ IF b.life = NoLife
       THEN /\ guards' = Put(guards, GuardRec("held", NoLife, NULL))
            /\ UNCHANGED readers
       ELSE \E ok \in TryRdLockResults(b.life) :
            IF ok
            THEN /\ readers' = [readers EXCEPT ![b.life] = @ + 1]
                 /\ guards' = Put(guards, GuardRec("reading", b.life, NULL))
            ELSE /\ guards' = Put(guards, GuardRec("held", b.life, NULL))
                 /\ UNCHANGED readers
    /\ UNCHANGED <<heap, object, writer, owners, observers, deaths, eventVars, uidVars>>

\* retain(): return object; and ptr takes the returned value.
GuardRead(g) ==
    /\ BagIn(g, guards)
    /\ g.pc = "reading"
    /\ guards' = Put(Take(guards, g), GuardRec("held", g.life, object[g.life]))
    /\ UNCHANGED <<heap, object, lockVars, owners, observers, deaths, eventVars, uidVars>>

\* ~holder_ptr(): if(life) if(ptr) life->release().
NeedsRelease(g) == g.life # NoLife /\ g.ptr # NULL

\* release(): pthread_rwlock_unlock by a holder, as the possible pairs
\* <<readers, writer>> of lifeline l afterwards.  With a read lock held one is
\* given back.  With none held the call is undefined: the lock is left as it
\* is, or the write lock of a teardown is released.
ReleaseResults(l) ==
    IF readers[l] > 0
    THEN {<<readers[l] - 1, writer[l]>>}
    ELSE {<<readers[l], writer[l]>>, <<readers[l], FALSE>>}

\* The lock after the destructor of a holder with fields life and ptr:
\* if(life) if(ptr) life->release().
Released(life, ptr) ==
    IF NeedsRelease(GuardRec("held", life, ptr))
    THEN \E res \in ReleaseResults(life) :
            /\ readers' = [readers EXCEPT ![life] = res[1]]
            /\ writer' = [writer EXCEPT ![life] = res[2]]
    ELSE UNCHANGED <<readers, writer>>

\* ~holder_ptr(), then the member `life` is destroyed.
GuardDestroy(g) ==
    /\ BagIn(g, guards)
    /\ g.pc = "held"
    /\ Released(g.life, g.ptr)
    /\ heap' = DropRef(g.life)
    /\ guards' = Take(guards, g)
    /\ UNCHANGED <<object, owners, observers, deaths, eventVars, uidVars>>

\* holder_ptr(holder_ptr&& hp) { swap(life, hp.life); }: `life` starts empty
\* and takes hp's, `ptr` has no initializer and hp keeps its own.
GuardMove(src) ==
    /\ BagIn(src, guards)
    /\ BagCardinality(guards) < NGuard
    /\ src.pc = "held"
    /\ \E x \in Uninitialized :
          LET sw == SwapLife(NoLife, src.life)
          IN  guards' = Put(Put(Take(guards, src),
                                GuardRec("held", sw[2], src.ptr)),
                            GuardRec("held", sw[1], x))
    /\ UNCHANGED <<heap, object, lockVars, owners, observers, deaths, eventVars, uidVars>>

\* dst = std::move(src), for two holders: the parameter hp is move-constructed
\* from src (its ptr uninitialized), swap(life, hp.life), and hp is destroyed
\* on return with the life that dst had; dst and src keep their ptr.
GuardAssign(dst, src) ==
    /\ BagIn(dst, guards)
    /\ BagIn(src, guards)
    /\ dst.pc = "held"
    /\ src.pc = "held"
    /\ dst # src \/ CopiesIn(dst, guards) >= 2
    /\ \E x \in Uninitialized :
          LET mv == SwapLife(NoLife, src.life)
              sw == SwapLife(dst.life, mv[1])
          IN  /\ guards' = Put(Put(Take(Take(guards, dst), src),
                                   GuardRec("held", mv[2], src.ptr)),
                               GuardRec("held", sw[1], dst.ptr))
              /\ Released(sw[2], x)
              /\ heap' = DropRef(sw[2])
    /\ UNCHANGED <<object, owners, observers, deaths, eventVars, uidVars>>

\* ------------------------------------------------------------ event state
NHandler == 2       \* eventHandler objects that can be constructed
NKind == 2          \* event types
NBus == 2           \* eventBus objects

Handlers == 1..NHandler
Kinds == 1..NKind
Buses == 1..NBus
NoHandler == 0

\* eventConcept<eventType>::id(): the uid that event type k returns from its
\* static id(); distinct event types return distinct ids.
IdOf(k) == NKind + k
Ids == {IdOf(k) : k \in Kinds}

\* An eventHandler<eventType>: where its life stands ("none": not yet
\* constructed, "live", "dying": its destructor has been entered, "freed"),
\* its template argument and its member ebus.
HandlerRec(st, kind, bus) == [st |-> st, kind |-> kind, bus |-> bus]
NotConstructed == HandlerRec("none", 0, 0)

\* A call of eventBus::subscribe or eventBus::unsubscribe.
Call(op, bus, id) == [op |-> op, bus |-> bus, id |-> id]

\* No broadcast call in progress on a bus.
Idle == [st |-> "idle", id |-> 0, kind |-> 0, todo |-> <<>>,
         running |-> NoHandler, done |-> <<>>]

EventInit ==
    /\ hs = [h \in Handlers |-> NotConstructed]
    /\ order = <<>>
    /\ calls = [h \in Handlers |-> <<>>]
    /\ registry = [b \in Buses |-> [i \in Ids |-> <<>>]]
    /\ bc = [b \in Buses |-> Idle]

\* --------------------------------------------------------------- uid state
\* enum class uidType : char { module = 0, event, widget, keybind, color }.
UidTypes == 0..4

\* struct uid as its 16 chars: module[5], author[3], type, name[7].
Uid(module, author, type, name) == module \o author \o <<type>> \o name

\* null(type).
Null(type) == Uid(<<0, 0, 0, 0, 0>>, <<0, 0, 0>>, type, <<0, 0, 0, 0, 0, 0, 0>>)

\* No uid operator applied.
NoResult == [op |-> "none", val |-> FALSE]

UidIdle ==
    /\ ua = Null(0)
    /\ ub = Null(0)
    /\ result = NoResult

\* ----------------------------------------------------------- specification
Init == LifeInit /\ EventInit /\ UidIdle

\* ------------------------------------------------------------------ Next
Next ==
    \/ \E l \in Lifelines : OwnerCreate(l)
    \/ OwnerCreateEmpty
    \/ \E src \in OwnerRecs : OwnerMove(src)
    \/ \E o \in OwnerRecs : OwnerDestroy(o)
    \/ \E dst \in OwnerRecs, src \in OwnerRecs : OwnerAssign(dst, src)
    \/ \E o \in OwnerRecs : OwnerAssignSelf(o)
    \/ \E o \in OwnerRecs : OwnerLock(o)
    \/ \E o \in OwnerRecs : OwnerNull(o)
    \/ \E o \in OwnerRecs : OwnerUnlock(o)
    \/ \E o \in OwnerRecs : ObsFromOwner(o)
    \/ \E src \in ObsRecs : ObsCopy(src)
    \/ \E b \in ObsRecs : ObsDestroy(b)
    \/ \E b \in ObsRecs : GuardConstruct(b)
    \/ \E g \in GuardRecs : GuardRead(g)
    \/ \E g \in GuardRecs : GuardDestroy(g)

Spec == Init /\ [][Next]_vars

\* The same handles, with holders also moved and move-assigned.
MoveNext ==
    \/ Next
    \/ \E src \in GuardRecs : GuardMove(src)
    \/ \E dst \in GuardRecs, src \in GuardRecs : GuardAssign(dst, src)

MoveSpec == Init /\ [][MoveNext]_vars

\* Scheduling: a thread that can run does run, so a constructed holder is
\* eventually destroyed and a step inside retain or waitForDeath that is not
\* blocked is taken; the rwlock grants a blocked pthread_rwlock_wrlock when the
\* lock is free again and again (it hands the lock over when the last reader
\* leaves), which is strong fairness of OwnerLock.
Fairness ==
    /\ \A g \in GuardRecs : WF_vars(GuardRead(g)) /\ WF_vars(GuardDestroy(g))
    /\ \A o \in OwnerRecs :
          SF_vars(OwnerLock(o)) /\ WF_vars(OwnerNull(o)) /\ WF_vars(OwnerUnlock(o))

FairSpec == Spec /\ Fairness

\* ------------------------------------------------------------ eventHandler
\* The id that the constructor passes to subscribe.
SubscribeId_other(k) == IdOf((k % NKind) + 1)
SubscribeId(k) == IdOf(k)

\* The id that the destructor passes to unsubscribe.
UnsubscribeId_other(k) == IdOf((k % NKind) + 1)
UnsubscribeId(k) == IdOf(k)

Range(q) == {q[i] : i \in 1..Len(q)}
Without(q, h) == SelectSeq(q, LAMBDA x : x # h)

\* The registry lock of bus b is free: a broadcast call holds it from its
\* begin to its end, subscribe and unsubscribe hold it for one step.
LockFree(b) == bc[b].st = "idle"

\* subscribe(id, h) on bus b: h goes last under id; subscribing twice is
\* ignored.
Subscribe(b, id, h) ==
    [registry EXCEPT ![b][id] = IF h \in Range(@) THEN @ ELSE Append(@, h)]

\* unsubscribe(id, h) on bus b: h is removed from under id; unsubscribing a
\* handler that is not there is ignored.
Unsubscribe(b, id, h) == [registry EXCEPT ![b][id] = Without(@, h)]

\* Faulty variant: a constructor that binds the bus and never subscribes.
HandlerCreate_noSubscribe(h, k, b) ==
    /\ hs[h].st = "none"
    /\ h = Len(order) + 1
    /\ hs' = [hs EXCEPT ![h] = HandlerRec("live", k, b)]
    /\ order' = Append(order, h)
    /\ UNCHANGED <<calls, registry, bc, lifeVars, uidVars>>

\* eventHandler(eventBus& ebus): ebus(ebus) { ebus.subscribe(id(), this); }
\* for an eventHandler<k> at address h.  Addresses are interchangeable, so
\* the handlers are numbered in the order of their construction.
HandlerCreate(h, k, b) ==
    /\ hs[h].st = "none"
    /\ h = Len(order) + 1
    /\ LockFree(b)
    /\ hs' = [hs EXCEPT ![h] = HandlerRec("live", k, b)]
    /\ order' = Append(order, h)
    /\ calls' = [calls EXCEPT ![h] = Append(@, Call("subscribe", b, SubscribeId(k)))]
    /\ registry' = Subscribe(b, SubscribeId(k), h)
    /\ UNCHANGED <<bc, lifeVars, uidVars>>

\* The destructor of the class derived from eventHandler is entered; the
\* base destructor has still to run.
HandlerDestroyBegin(h) ==
    /\ hs[h].st = "live"
    /\ hs' = [hs EXCEPT ![h].st = "dying"]
    /\ UNCHANGED <<order, calls, registry, bc, lifeVars, uidVars>>

\* Faulty variant: a destructor that returns without the unsubscribe call.
HandlerDestroy_skipsUnsubscribe(h) ==
    /\ hs[h].st = "dying"
    /\ hs' = [hs EXCEPT ![h].st = "freed"]
    /\ UNCHANGED <<order, calls, registry, bc, lifeVars, uidVars>>

\* ~eventHandler() { ebus.unsubscribe(id(), this); }, after which the handler
\* is gone.
HandlerDestroy(h) ==
    /\ hs[h].st = "dying"
    /\ LockFree(hs[h].bus)
    /\ calls' = [calls EXCEPT ![h] =
                    Append(@, Call("unsubscribe", hs[h].bus, UnsubscribeId(hs[h].kind)))]
    /\ registry' = Unsubscribe(hs[h].bus, UnsubscribeId(hs[h].kind), h)
    /\ hs' = [hs EXCEPT ![h].st = "freed"]
    /\ UNCHANGED <<order, bc, lifeVars, uidVars>>

\* The event type that handle(const void*) of handler h casts its argument to.
Downcast(h) == hs[h].kind

\* ---------------------------------------------------------------- eventBus
\* Faulty variant: a holder sent under the id of another event type.
Holder_otherId(k) == [id |-> IdOf((k % NKind) + 1), kind |-> k]

\* broadcast(eventType&& event): the id and the typedEventHolder handed to
\* broadcast(uid, unique_ptr<eventHolder>).
Holder(k) == [id |-> IdOf(k), kind |-> k]

\* broadcast(id, holder) of a synchronous bus begins: the registry lock is
\* taken and the handlers under id are to be invoked in their order.
BroadcastBegin(b, k) ==
    /\ LockFree(b)
    /\ bc' = [bc EXCEPT ![b] = [st |-> "active", id |-> Holder(k).id,
                                kind |-> Holder(k).kind,
                                todo |-> registry[b][Holder(k).id],
                                running |-> NoHandler, done |-> <<>>]]
    /\ UNCHANGED <<hs, order, calls, registry, lifeVars, uidVars>>

\* The bus calls handle(holder.get()) of the next handler.
DeliverBegin(b) ==
    /\ bc[b].st = "active"
    /\ bc[b].running = NoHandler
    /\ bc[b].todo # <<>>
    /\ bc' = [bc EXCEPT ![b].running = Head(bc[b].todo), ![b].todo = Tail(bc[b].todo)]
    /\ UNCHANGED <<hs, order, calls, registry, lifeVars, uidVars>>

\* handle returns.
DeliverEnd(b) ==
    /\ bc[b].running # NoHandler
    /\ bc' = [bc EXCEPT ![b].done = Append(@, bc[b].running), ![b].running = NoHandler]
    /\ UNCHANGED <<hs, order, calls, registry, lifeVars, uidVars>>

\* broadcast returns and gives the registry lock back.
BroadcastEnd(b) ==
    /\ bc[b].st = "active"
    /\ bc[b].running = NoHandler
    /\ bc[b].todo = <<>>
    /\ bc' = [bc EXCEPT ![b] = Idle]
    /\ UNCHANGED <<hs, order, calls, registry, lifeVars, uidVars>>

BusNext ==
    \/ \E h \in Handlers, k \in Kinds, b \in Buses : HandlerCreate(h, k, b)
    \/ \E h \in Handlers : HandlerDestroyBegin(h)
    \/ \E h \in Handlers : HandlerDestroy(h)
    \/ \E b \in Buses, k \in Kinds : BroadcastBegin(b, k)
    \/ \E b \in Buses : DeliverBegin(b)
    \/ \E b \in Buses : DeliverEnd(b)
    \/ \E b \in Buses : BroadcastEnd(b)

BusSpec == Init /\ [][BusNext]_vars

\* --------------------------------------------------------------------- uid
NChar == 1          \* the first char of module is drawn from 0..NChar
WordBytes == 8      \* sizeof(long)
CharBits == 8       \* bits of a char
CharValues == 256   \* values of a char
SignBit == 128      \* the value of the top bit of a char

\* The uids that the operators are applied to: they differ in the lowest and
\* in the highest char of the first long, and in the lowest (type) and in
\* the highest char of the second.
TopChars == {0, 1, SignBit}
Uids ==
    {Uid(<<m, 0, 0, 0, 0>>, <<0, 0, a>>, t, <<0, 0, 0, 0, 0, 0, n>>) :
        m \in 0..NChar, a \in TopChars, t \in UidTypes, n \in TopChars}

\* reinterpret_cast<const long*>(&u)[n], as its chars from the lowest up.
Word(u, n) == SubSeq(u, n * WordBytes + 1, (n + 1) * WordBytes)

\* The place of a long's highest char in the order of signed values.
Signed(c) == (c + SignBit) % CharValues

\* x < y for two long values: decided by the highest char in which they
\* differ, the highest char of all being signed.
LongLess(x, y) ==
    LET kx == [x EXCEPT ![WordBytes] = Signed(@)]
        ky == [y EXCEPT ![WordBytes] = Signed(@)]
    IN  \E i \in 1..WordBytes :
            /\ kx[i] < ky[i]
            /\ \A j \in (i + 1)..WordBytes : kx[j] = ky[j]

\* x ^ y for two chars.
RECURSIVE XorBits(_, _, _)
XorBits(x, y, n) ==
    IF n = 0 THEN 0
    ELSE ((x + y) % 2) + 2 * XorBits(x \div 2, y \div 2, n - 1)

\* Faulty variant: an operator< that looks at the first long only.
Less_firstWord(a, b) == LongLess(Word(a, 0), Word(b, 0))

\* uid::operator<.
Less(a, b) ==
    IF Word(a, 0) = Word(b, 0)
    THEN LongLess(Word(a, 1), Word(b, 1))
    ELSE LongLess(Word(a, 0), Word(b, 0))

\* Faulty variant: an operator== that looks at the first long only.
Equals_firstWord(a, b) == Word(a, 0) = Word(b, 0)

\* uid::operator==.
Equals(a, b) == Word(a, 0) = Word(b, 0) /\ Word(a, 1) = Word(b, 1)

\* std::hash<uid>: (size_t)(v[0] ^ v[1]), as its chars from the lowest up.
Hash(u) == [i \in 1..WordBytes |-> XorBits(Word(u, 0)[i], Word(u, 1)[i], CharBits)]

UidInit ==
    /\ LifeInit
    /\ EventInit
    /\ ua \in Uids
    /\ ub \in Uids
    /\ result = NoResult

\* ua == ub is evaluated.
UidEquals ==
    /\ result.op = "none"
    /\ result' = [op |-> "equals", val |-> Equals(ua, ub)]
    /\ UNCHANGED <<ua, ub, lifeVars, eventVars>>

\* ua < ub and ub < ua are evaluated.
UidLess ==
    /\ result.op = "none"
    /\ result' = [op |-> "less", val |-> <<Less(ua, ub), Less(ub, ua)>>]
    /\ UNCHANGED <<ua, ub, lifeVars, eventVars>>

\* The hashes of ua and ub are evaluated.
UidHash ==
    /\ result.op = "none"
    /\ result' = [op |-> "hash", val |-> <<Hash(ua), Hash(ub)>>]
    /\ UNCHANGED <<ua, ub, lifeVars, eventVars>>

UidNext == UidEquals \/ UidLess \/ UidHash

UidSpec == UidInit /\ [][UidNext]_vars

\* ===================================================================
\* Properties
\* ===================================================================

\* The owners that hold the write lock of lifeline l inside waitForDeath.
Exclusive(l) ==
    CountIn(owners, {o \in OwnerRecs : o.pc \in {"locked", "nulled"} /\ Dying(o) = l})

\* waitForDeath has been called on l and every call has returned.
TornDown(l) ==
    /\ deaths[l] > 0
    /\ \A o \in Handles(owners) : o.pc # "live" => Dying(o) # l

\* The guards on l that hold a read lock they will give back.
Claiming(l) ==
    CountIn(guards, {g \in GuardRecs : g.life = l /\ (g.pc = "reading" \/ g.ptr # NULL)})

\* C1: while a guard that captured a non-null reference is alive, the
\* lifeline's object is still that reference and no teardown holds the write
\* lock; and whenever a teardown holds the write lock, about to clear or
\* having cleared the reference, no guard holds the read lock.
C1_GuardOutlivesNoTeardown ==
    /\ \A g \in Handles(guards) :
          (g.pc = "held" /\ g.ptr # NULL) =>
              /\ object[g.life] = g.ptr
              /\ Exclusive(g.life) = 0
              /\ ~writer[g.life]
    /\ \A o \in Handles(owners) :
          o.pc \in {"locked", "nulled"} =>
              readers[Dying(o)] = 0 /\ Claiming(Dying(o)) = 0

\* A guard holds a live reference while the owner's teardown waits for it.
C1_Witness ==
    \E g \in Handles(guards) :
        /\ g.pc = "held" /\ g.ptr # NULL
        /\ WriterPending(g.life)

\* C2: a guard whose construction finishes on a lifeline whose teardown has
\* completed is inert: its pointer is null.
C2_InertAfterTeardown ==
    [][\A g \in GuardRecs :
          (/\ g.pc = "held" /\ g.life # NoLife
           /\ TornDown(g.life)
           /\ CopiesIn(g, guards') > CopiesIn(g, guards))
          => g.ptr = NULL]_vars

\* After the teardown a guard took the read lock and still came out inert.
C2_Witness ==
    \E g \in Handles(guards) :
        /\ g.pc = "held" /\ g.life # NoLife /\ g.ptr = NULL
        /\ TornDown(g.life)
        /\ readers[g.life] > 0

\* C3: per lifeline at most one teardown holds the write lock, the lock's
\* writer flag is exactly that, and while it is held no read lock is held:
\* no guard acquisition is granted between wrlock and unlock.
C3_ExclusiveTeardown ==
    \A l \in Lifelines :
        /\ Exclusive(l) <= 1
        /\ writer[l] <=> (Exclusive(l) = 1)
        /\ writer[l] => (readers[l] = 0 /\ Claiming(l) = 0)

\* A guard acquisition was attempted, and refused, during the exclusive phase.
C3_Witness ==
    \E l \in Lifelines :
        /\ writer[l]
        /\ BagIn(GuardRec("held", l, NULL), guards)

\* C4: a guard acquisition made while the write lock is held, or while a
\* teardown is blocked waiting for it, is refused at once: the step adds an
\* inert guard and grants no read lock.
C4_RefusedWhenHeldOrPending ==
    [][\A l \in Lifelines :
          LET OnL == {g \in GuardRecs : g.life = l}
          IN  (/\ writer[l] \/ WriterPending(l)
               /\ CountIn(guards', OnL) > CountIn(guards, OnL))
              => /\ readers'[l] = readers[l]
                 /\ CopiesIn(GuardRec("held", l, NULL), guards')
                      > CopiesIn(GuardRec("held", l, NULL), guards)]_vars

\* C5: a teardown that has started waiting for the write lock eventually
\* completes.
C5_TeardownCompletes ==
    \A l \in Lifelines : WriterPending(l) ~> TornDown(l)

\* C6: once every guard has been destroyed no read lock is held.
C6_NoGuardNoReader ==
    (guards = EmptyBag) => \A l \in Lifelines : readers[l] = 0

\* C7: a guard acquisition that the lock grants captures a non-null
\* reference, and the read lock stays held while the guard exists.
C7_GrantedCapturesNonNull ==
    /\ [](\A l \in Lifelines : readers[l] >= Claiming(l))
    /\ [][\A g \in GuardRecs :
             (g.pc = "reading" /\ CopiesIn(g, guards') < CopiesIn(g, guards))
             => CopiesIn(GuardRec("held", g.life, NULL), guards')
                  = CopiesIn(GuardRec("held", g.life, NULL), guards)]_vars

\* The stage of a lifeline: Alive (reference valid, write lock free), Dying
\* (write lock held), Dead (reference null, write lock released).
Stage(l) ==
    IF heap[l] = "unallocated" THEN "Unborn"
    ELSE IF writer[l] THEN "Dying"
    ELSE IF object[l] = NULL THEN "Dead"
    ELSE "Alive"

\* C8: a lifeline only advances Alive -> Dying -> Dead, and a reference that
\* has been set to null is never made non-null again.
C8_DeadIsTerminal ==
    [][\A l \in Lifelines :
          /\ \/ Stage(l)' = Stage(l)
             \/ <<Stage(l), Stage(l)'>> \in
                  {<<"Unborn", "Alive">>, <<"Alive", "Dying">>, <<"Dying", "Dead">>}
          /\ (heap[l] # "unallocated" /\ object[l] = NULL) => object'[l] = NULL]_vars

\* A dead lifeline that is still observed, guarded and owned elsewhere.
C8_Witness ==
    \E l \in Lifelines :
        /\ Stage(l) = "Dead"
        /\ BagIn(ObsRec(l), observers)
        /\ BagIn(GuardRec("held", l, NULL), guards)
        /\ owners # EmptyBag

\* The owner handles (a living_ptr, or the parameter of operator=) whose
\* life is l, and those of them not yet given to a destructor.
OwnerRefs(l) ==
      CountIn(owners, {o \in OwnerRecs : o.life = l})
    + CountIn(owners, {o \in OwnerRecs : o.tmp = l})

Owning(l) ==
    CountIn(owners, {o \in OwnerRecs : o.life = l /\ (o.pc = "live" \/ o.tmp # NoLife)})

\* C9: at most one owner handle refers to a lifeline, and waitForDeath is
\* called on it once, when that handle is destroyed or overwritten: either
\* one handle still owns it and no teardown was run, or none does and exactly
\* one was.
C9_SingleOwner ==
    \A l \in Lifelines :
        /\ OwnerRefs(l) <= 1
        /\ heap[l] # "unallocated" => Owning(l) + deaths[l] = 1
        /\ heap[l] = "unallocated" => Owning(l) + deaths[l] = 0

\* An assignment overwrote the owner of a lifeline and runs its teardown.
C9_Witness ==
    \E o \in Handles(owners) : o.tmp # NoLife /\ deaths[o.tmp] = 1

\* C10: a step that creates, copies or destroys an observer changes no lock
\* and no reference, and a teardown that waits while no guard holds the read
\* lock can take the write lock at once, however many observers exist.
C10_ObserversHoldNothing ==
    /\ [](\A o \in Handles(owners) :
            (o.pc = "wrlock" /\ Claiming(Dying(o)) = 0) => CanWrLock(Dying(o)))
    /\ [][observers' # observers => UNCHANGED <<readers, writer, object>>]_vars

\* A teardown starts with two observers of the lifeline and no guard.
C10_Witness ==
    \E o \in Handles(owners) :
        /\ o.pc = "wrlock" /\ Claiming(Dying(o)) = 0
        /\ CopiesIn(ObsRec(Dying(o)), observers) >= 2

\* C11: a lifeline is freed exactly when the last handle that refers to it
\* (owner, operator= parameter, observer or guard) is gone, and a step never
\* touches the lock or the reference of a lifeline that is already freed.
C11_FreedWithLastHandle ==
    /\ [](\A l \in Lifelines :
            /\ heap[l] = "freed" <=> (heap[l] # "unallocated" /\ UseCount(l) = 0)
            /\ heap[l] = "unallocated" => UseCount(l) = 0)
    /\ [][\A l \in Lifelines :
            heap[l] = "freed" =>
                /\ heap'[l] = "freed"
                /\ UNCHANGED <<readers[l], writer[l], object[l], deaths[l]>>]_vars

\* A torn-down lifeline with no owner and no observer left, kept allocated
\* by a guard alone.
C11_Witness ==
    \E l \in Lifelines :
        /\ heap[l] = "allocated" /\ TornDown(l)
        /\ UseCount(l) = CountIn(guards, {g \in GuardRecs : g.life = l})

\* C20: when a lifeline is freed neither side of its lock is held.
C20_FreedLockIsFree ==
    \A l \in Lifelines : heap[l] = "freed" => (readers[l] = 0 /\ ~writer[l])

\* C19: moving a holder transfers its claim as a whole: a holder left without
\* a lifeline converts to null, a holder with a lifeline converts to null or
\* to the object captured from that lifeline, and every holder that will call
\* release holds a read lock to give back.
C19_MoveTransfersClaim ==
    /\ \A g \in Handles(guards) :
          /\ g.life = NoLife => g.ptr = NULL
          /\ (g.pc = "held" /\ g.life # NoLife) => g.ptr \in {NULL, ObjectOf(g.life)}
    /\ \A l \in Lifelines : readers[l] >= Claiming(l)

\* ------------------------------------------------------ event bus claims
\* The handlers subscribed on bus b under id, in the order of their
\* subscribe calls: constructed on b for an event type of that id, and their
\* destructor not yet returned.
Subscribed(b, id) ==
    SelectSeq(order, LAMBDA h : /\ hs[h].st \in {"live", "dying"}
                                /\ hs[h].bus = b
                                /\ IdOf(hs[h].kind) = id)

\* The handlers that the broadcast call in progress on bus b has invoked or
\* is invoking.
Invoked(b) ==
    IF bc[b].running = NoHandler THEN bc[b].done
    ELSE Append(bc[b].done, bc[b].running)

\* C12: a broadcast call on the synchronous bus invokes handle exactly once on
\* each handler subscribed under the event's id before the call began and not
\* unsubscribed, in the order of the subscriptions: during the call the
\* invocations made are a prefix of that sequence, and when the call returns
\* they are the whole of it.
C12_EachSubscriberOnceInOrder ==
    /\ [](\A b \in Buses :
            bc[b].st = "active" =>
                Invoked(b) \o bc[b].todo = Subscribed(b, IdOf(bc[b].kind)))
    /\ [][\A b \in Buses :
            (bc[b].st = "active" /\ bc'[b].st = "idle") =>
                bc[b].done = Subscribed(b, IdOf(bc[b].kind))]_vars

\* A broadcast call that has invoked two handlers and has none left.
C12_Witness ==
    \E b \in Buses :
        /\ bc[b].st = "active" /\ bc[b].todo = <<>> /\ bc[b].running = NoHandler
        /\ Len(bc[b].done) = 2

\* C13: no invocation starts on a handler whose destructor has returned, and
\* a broadcast call that begins is to invoke every handler still subscribed
\* under its id.
C13_DestroyedGetsNothing ==
    /\ [][\A b \in Buses :
            (bc'[b].running # NoHandler /\ bc'[b].running # bc[b].running) =>
                hs[bc'[b].running].st # "freed"]_vars
    /\ [][\A b \in Buses :
            (bc[b].st = "idle" /\ bc'[b].st = "active") =>
                /\ \A h \in Handlers : hs[h].st = "freed" => h \notin Range(bc'[b].todo)
                /\ \A h \in Handlers :
                      (hs[h].st = "live" /\ hs[h].bus = b /\ IdOf(hs[h].kind) = bc'[b].id)
                          => h \in Range(bc'[b].todo)]_vars

\* A broadcast has invoked a handler after another handler of the same bus
\* and event type was destroyed.
C13_Witness ==
    \E b \in Buses, h \in Handlers, g \in Handlers :
        /\ hs[h].st = "freed" /\ hs[h].bus = b /\ IdOf(hs[h].kind) = bc[b].id
        /\ hs[g].st = "live" /\ g \in Range(bc[b].done)

\* The calls that a handler in state st, of event type kind, constructed on
\* bus, is to have made.
CallsDue(st, kind, bus) ==
    CASE st = "none" -> <<>>
      [] st \in {"live", "dying"} -> <<Call("subscribe", bus, IdOf(kind))>>
      [] st = "freed" -> <<Call("subscribe", bus, IdOf(kind)),
                           Call("unsubscribe", bus, IdOf(kind))>>

C15_DispatchKeyedById ==
    \A b \in Buses :
        bc[b].running # NoHandler =>
            /\ calls[bc[b].running] # <<>>
            /\ calls[bc[b].running][1] = Call("subscribe", b, bc[b].id)
            /\ Downcast(bc[b].running) = bc[b].kind

\* A handler is being invoked while a handler for another event type is
\* subscribed on the same bus.
C15_Witness ==
    \E b \in Buses, g \in Handlers :
        /\ bc[b].running # NoHandler
        /\ hs[g].st = "live" /\ hs[g].bus = b /\ hs[g].kind # bc[b].kind

\* C16: while a broadcast is inside handle of a handler, the destructor of
\* that handler has not returned.
C16_NotFreedWhileDispatching ==
    \A b \in Buses :
        bc[b].running # NoHandler => hs[bc[b].running].st \in {"live", "dying"}

\* A broadcast is inside handle of a handler whose destructor has been
\* entered.
C16_Witness ==
    \E b \in Buses : bc[b].running # NoHandler /\ hs[bc[b].running].st = "dying"

\* ------------------------------------------------------------- uid claims
\* Bit n (from 0) of char c.
Bit(c, n) == (c \div (2 ^ n)) % 2

\* C17: a == b exactly when the 16 chars of a and b are the same; equal uids
\* have equal hashes; each bit of the hash is set exactly when the two longs
\* of the uid differ in that bit.
C17_EqualityAndHash ==
    /\ result.op = "equals" =>
          (result.val <=> \A i \in 1..(2 * WordBytes) : ua[i] = ub[i])
    /\ result.op = "hash" =>
          /\ Equals(ua, ub) => result.val[1] = result.val[2]
          /\ \A i \in 1..WordBytes, n \in 0..(CharBits - 1) :
                Bit(result.val[1][i], n) = 1 <=>
                    Bit(ua[i], n) # Bit(ua[WordBytes + i], n)

\* Two uids that agree in their first long and differ in the second have been
\* compared with ==.
C17_Witness ==
    /\ result.op = "equals"
    /\ Word(ua, 0) = Word(ub, 0)
    /\ Word(ua, 1) # Word(ub, 1)

\* C18: exactly one of a < b, a == b, b < a holds; a < b is decided by the
\* first long, and by the second only when the first longs are equal; a < b
\* and b < c give a < c.
C18_StrictTotalOrder ==
    result.op = "less" =>
        /\ result.val[1] \/ Equals(ua, ub) \/ result.val[2]
        /\ ~(result.val[1] /\ Equals(ua, ub))
        /\ ~(result.val[2] /\ Equals(ua, ub))
        /\ ~(result.val[1] /\ result.val[2])
        /\ Word(ua, 0) # Word(ub, 0) =>
              (result.val[1] <=> LongLess(Word(ua, 0), Word(ub, 0)))
        /\ Word(ua, 0) = Word(ub, 0) =>
              (result.val[1] <=> LongLess(Word(ua, 1), Word(ub, 1)))
        /\ \A c \in Uids : (result.val[1] /\ Less(ub, c)) => Less(ua, c)

\* Two uids with equal first longs, ordered by their second longs, have been
\* compared with <.
C18_Witness ==
    /\ result.op = "less"
    /\ result.val[1]
    /\ Word(ua, 0) = Word(ub, 0)

\* ------------------------------------------------------- empty handles
\* The handles of bag B that refer to no lifeline.
Empties(B) == {r \in Handles(B) : r.life = NoLife}

\* A step that constructs or destroys a handle of bag B that refers to no
\* lifeline, B2 being the bag after the step.
EmptyComesOrGoes(B, B2) ==
    \E r \in Empties(B) \cup Empties(B2) :
        B2 = Put(B, r) \/ B2 = Take(B, r)

\* C21: an observer made while no owner or observer refers to a lifeline
\* refers to none; a guard that refers to no lifeline is constructed at once
\* and converts to null; constructing or destroying such a guard, or an owner
\* that refers to no lifeline and is not inside operator=, touches no lock,
\* no object reference and no lifeline, and starts no teardown.
C21_EmptyHandlesAreInert ==
    /\ [](\A g \in Empties(guards) : g.pc = "held" /\ g.ptr = NULL)
    /\ [][\A l \in Lifelines :
            (CopiesIn(ObsRec(l), observers') > CopiesIn(ObsRec(l), observers)) =>
                \/ \E o \in Handles(owners) : o.pc = "live" /\ o.life = l
                \/ BagIn(ObsRec(l), observers)]_vars
    /\ [][EmptyComesOrGoes(guards, guards') =>
            UNCHANGED <<heap, object, readers, writer, deaths>>]_vars
    /\ [][(\E o \in Empties(owners) : o.tmp = NoLife /\ owners' = Take(owners, o)) =>
            UNCHANGED <<heap, object, readers, writer, deaths>>]_vars

\* A guard made from an observer of an empty owner stands beside a guard that
\* holds the read lock of a lifeline.
C21_Witness ==
    /\ BagIn(GuardRec("held", NoLife, NULL), guards)
    /\ BagIn(ObsRec(NoLife), observers)
    /\ \E l \in Lifelines : heap[l] = "allocated" /\ readers[l] > 0

====
